---- MODULE Spec2Model ----
(***************************************************************************)
(* Conway's Game of Life on a fixed grid (src/main.rs): the board resource, *)
(* the repeating simulation timer, and the four per-frame systems          *)
(* render_board, execute_step, pause_sim and add_cells.                    *)
(***************************************************************************)
EXTENDS Integers, Sequences, FiniteSets

(* ------------------------------------------------------------------ *)
(* Sizes.  The program fixes a 30 x 20 grid; the model keeps the same  *)
(* code on a smaller grid.                                             *)
(* ------------------------------------------------------------------ *)
GRID_WIDTH == 6
GRID_HEIGHT == 5
CELL_SIZE == 10
TIMER_MS == 50

\* Largest frame delta, in half timer periods.
MaxDelta == 1
\* Largest side of a rectangle of the initial boards.
MaxRect == 3
\* Number of timer firings a run is followed for.
MaxGen == 2
\* Number of cells a run sets through the pointer.
MaxClicks == 1

VARIABLES board, old_board, sim_tick, fault, pos, gen, clicks

vars == <<board, old_board, sim_tick, fault, pos, gen, clicks>>

Xs == 0 .. (GRID_WIDTH - 1)
Ys == 0 .. (GRID_HEIGHT - 1)
Cells == Xs \X Ys

\* struct Cell { alive: bool }
Cell(a) == [alive |-> a]

\* [[Cell; GRID_WIDTH]; GRID_HEIGHT], indexed board[y][x]
Boards == [Ys -> [Xs -> [alive : BOOLEAN]]]

BoardOf(live) == [y \in Ys |-> [x \in Xs |-> Cell(<<x, y>> \in live)]]

\* `as usize` of an isize: a negative value wraps to 2^64 + i, far above
\* every index.  TLC's integers are 32 bits wide, so the wrapped
\* value is represented by 2^31 - 1 + i, equally far above every index.
AsUsize(i) == IF i < 0 THEN 2147483647 + i ELSE i

\* directions with its last entry mistyped as a copy of [1, -1]
directions_typo ==
    << <<-1, -1>>, <<0, -1>>, <<1, -1>>,
       <<-1, 0>>,             <<1, 0>>,
       <<-1, 1>>,  <<0, 1>>,  <<1, -1>> >>

\* the eight offsets of surrounding_count, in the order of the vec!
directions ==
    << <<-1, -1>>, <<0, -1>>, <<1, -1>>,
       <<-1, 0>>,             <<1, 0>>,
       <<-1, 1>>,  <<0, 1>>,  <<1, 1>> >>

\* new_x without its two edge branches
new_x_nowrap(current, direction) == AsUsize(current[1] + direction[1])

\* let new_x = if current[0] == 0 {..} else if current[0] == GRID_WIDTH - 1 {..} else {..}
new_x(current, direction) ==
    IF current[1] = 0 THEN GRID_WIDTH - 1
    ELSE IF current[1] = GRID_WIDTH - 1 THEN 0
    ELSE AsUsize(current[1] + direction[1])

\* new_y adding the x offset of the direction
new_y_swapped(current, direction) ==
    IF current[2] = 0 THEN GRID_HEIGHT - 1
    ELSE IF current[2] = GRID_HEIGHT - 1 THEN 0
    ELSE AsUsize(current[2] + direction[1])

\* let new_y = if current[1] == 0 {..} else if current[1] == GRID_HEIGHT - 1 {..} else {..}
new_y(current, direction) ==
    IF current[2] = 0 THEN GRID_HEIGHT - 1
    ELSE IF current[2] = GRID_HEIGHT - 1 THEN 0
    ELSE AsUsize(current[2] + direction[2])

\* board[new_y][new_x] is a bounds-checked index: it panics outside the array.
IndexOK(x, y) == x \in Xs /\ y \in Ys

\* the index pair surrounding_count reads for `current` in one direction
Probe(current, direction) ==
    <<new_x(current, direction), new_y(current, direction)>>

\* the probes of every cell, one per direction, in the order of the loop
ProbeTable ==
    [current \in Cells |->
        [i \in 1 .. Len(directions) |-> Probe(current, directions[i])]]

ProbesOK(current) ==
    \A i \in 1 .. Len(directions) :
        IndexOK(ProbeTable[current][i][1], ProbeTable[current][i][2])

\* count += 1 for every direction whose probed cell is alive
surrounding_count(b, current) ==
    LET probes == ProbeTable[current]
    IN  Cardinality({i \in 1 .. Len(directions) :
            /\ IndexOK(probes[i][1], probes[i][2])
            /\ b[probes[i][2]][probes[i][1]].alive})

\* the loop body reading the board it writes instead of the snapshot
CellUpdateInPlace(b, old, current) ==
    LET x == current[1]
        y == current[2]
        surrounding == surrounding_count(b, current)
    IN  IF ~b[y][x].alive /\ surrounding = 3
        THEN [b EXCEPT ![y][x].alive = TRUE]
        ELSE IF (b[y][x].alive /\ surrounding = 2) \/ surrounding = 3
        THEN b
        ELSE [b EXCEPT ![y][x].alive = FALSE]

\* the loop body with `|| surrounding == 3` dropped from the second test
CellUpdateNoThree(b, old, current) ==
    LET x == current[1]
        y == current[2]
        surrounding == surrounding_count(old, current)
    IN  IF ~old[y][x].alive /\ surrounding = 3
        THEN [b EXCEPT ![y][x].alive = TRUE]
        ELSE IF old[y][x].alive /\ surrounding = 2
        THEN b
        ELSE [b EXCEPT ![y][x].alive = FALSE]

\* the body of the per-cell loop of execute_step, for the cell `current`:
\* liveness and neighbour count are read from `old`, the write goes to `b`
CellUpdate(b, old, current) ==
    LET x == current[1]
        y == current[2]
        surrounding == surrounding_count(old, current)
    IN  IF ~old[y][x].alive /\ surrounding = 3
        THEN [b EXCEPT ![y][x].alive = TRUE]
        ELSE IF (old[y][x].alive /\ surrounding = 2) \/ surrounding = 3
        THEN b
        ELSE [b EXCEPT ![y][x].alive = FALSE]

\* for x in 0..GRID_WIDTH { for y in 0..GRID_HEIGHT { .. } }
NumCells == GRID_WIDTH * GRID_HEIGHT
LoopOrder ==
    [k \in 1 .. NumCells |-> <<(k - 1) \div GRID_HEIGHT, (k - 1) % GRID_HEIGHT>>]

\* the board after the first n iterations of the loop, visiting `order`
RECURSIVE RunLoop(_, _, _, _)
RunLoop(b, old, order, n) ==
    IF n = 0 THEN b
    ELSE CellUpdate(RunLoop(b, old, order, n - 1), old, order[n])

\* iterations the loop completes: all of them, or those before the first
\* cell whose neighbour probe would index outside the board (a panic)
Completed ==
    IF \A k \in 1 .. NumCells : ProbesOK(LoopOrder[k]) THEN NumCells
    ELSE (CHOOSE k \in 1 .. NumCells :
            /\ ~ProbesOK(LoopOrder[k])
            /\ \A j \in 1 .. (k - 1) : ProbesOK(LoopOrder[j])) - 1

(* ------------------------------------------------------------------ *)
(* SimulationTick: a repeating Timer of TIMER_MS milliseconds.         *)
(* ------------------------------------------------------------------ *)
NewTimer == [paused |-> FALSE, elapsed |-> 0, just_finished |-> FALSE]

\* sim_tick.timer.tick(time.delta()): a paused timer does not advance and
\* has not just finished; a running one accumulates and wraps at its period
TimerTick(t, delta) ==
    IF t.paused THEN [t EXCEPT !.just_finished = FALSE]
    ELSE [t EXCEPT !.elapsed = (t.elapsed + delta) % TIMER_MS,
                   !.just_finished = (t.elapsed + delta >= TIMER_MS)]

\* frame deltas the engine may report
FrameDeltas == {k * (TIMER_MS \div 2) : k \in 1 .. MaxDelta}

(* ------------------------------------------------------------------ *)
(* Initial boards.  GameData::default draws every cell independently,  *)
(* so every board is a possible start.                                 *)
(* ------------------------------------------------------------------ *)
RectCells(ox, oy, w, h) ==
    {c \in Cells : /\ (c[1] - ox) % GRID_WIDTH < w
                   /\ (c[2] - oy) % GRID_HEIGHT < h}

\* a live rectangle of at most MaxRect x MaxRect cells anywhere on the torus
SparseStarts ==
    {RectCells(ox, oy, w, h) : ox \in Xs, oy \in Ys,
                               w \in 0 .. MaxRect, h \in 0 .. MaxRect}

\* gen_bool(0.999): no dead cell, or a single one
DenseStarts ==
    {Cells \ RectCells(ox, oy, w, h) : ox \in Xs, oy \in Ys,
                                       w \in 0 .. 1, h \in 0 .. 1}

\* every pattern of the 3 x 3 window in the corner of the board: all
\* neighbourhoods of the interior cell (1, 1), and of edge cells beside it
WindowStarts == SUBSET ((0 .. 2) \X (0 .. 2))

Start(lives) ==
    /\ board \in {BoardOf(live) : live \in lives}
    /\ old_board = board
    /\ sim_tick = NewTimer
    /\ fault = "none"
    /\ pos = 0
    /\ gen = 0
    /\ clicks = 0

\* the program as started: (nearly) every cell alive, or none
Init == Start(DenseStarts \cup {{}})

\* a panic ends the process; between frames no loop is in progress
Running == fault = "none" /\ pos = 0

(* ------------------------------------------------------------------ *)
(* The systems, each a whole handler.                                  *)
(* ------------------------------------------------------------------ *)
\* pause_sim that pauses on Space and never unpauses
pause_sim_only_pauses(space) ==
    /\ Running
    /\ sim_tick' = IF space THEN [sim_tick EXCEPT !.paused = TRUE] ELSE sim_tick
    /\ UNCHANGED <<board, old_board, fault, pos, gen, clicks>>

\* fn pause_sim: Space toggles the timer's paused flag
pause_sim(space) ==
    /\ Running
    /\ sim_tick' = IF space THEN [sim_tick EXCEPT !.paused = ~sim_tick.paused]
                   ELSE sim_tick
    /\ UNCHANGED <<board, old_board, fault, pos, gen, clicks>>

\* fn render_board: reads the board and respawns the sprites; the sprite
\* entities are not part of the model
render_board ==
    /\ Running
    /\ UNCHANGED vars

\* fn execute_step, the whole handler
execute_step(delta) ==
    /\ Running
    /\ gen < MaxGen
    /\ LET t == TimerTick(sim_tick, delta)
           n == Completed
       IN  /\ sim_tick' = t
           /\ old_board' = board
           /\ IF t.just_finished
              THEN /\ board' = RunLoop(board, board, LoopOrder, n)
                   /\ fault' = IF n = NumCells THEN "none" ELSE "execute_step"
                   /\ gen' = gen + 1
              ELSE UNCHANGED <<board, fault, gen>>
    /\ UNCHANGED <<pos, clicks>>

\* (position / CELL_SIZE) as usize: truncates, and saturates below at 0
ToIndex(p) == IF p < 0 THEN 0 ELSE p \div CELL_SIZE

\* cursor positions the window may report while the button is held: left of
\* and below the window, in its first cell, in its middle, on its last pixel,
\* and on its far edges
Pointers ==
    { <<-(CELL_SIZE \div 2), -(CELL_SIZE \div 2)>>,
      <<CELL_SIZE \div 2, CELL_SIZE \div 2>>,
      <<(GRID_WIDTH \div 2) * CELL_SIZE, (GRID_HEIGHT \div 2) * CELL_SIZE>>,
      <<GRID_WIDTH * CELL_SIZE - 1, GRID_HEIGHT * CELL_SIZE - 1>>,
      <<GRID_WIDTH * CELL_SIZE, (GRID_HEIGHT \div 2) * CELL_SIZE>>,
      <<(GRID_WIDTH \div 2) * CELL_SIZE, GRID_HEIGHT * CELL_SIZE>> }

\* fn add_cells: `pressed` is mouse.pressed(Left), `cursor` the cursor
\* position or <<>> for None
add_cells(pressed, cursor) ==
    /\ Running
    /\ clicks < MaxClicks
    /\ IF pressed /\ cursor # <<>>
       THEN LET x == ToIndex(cursor[1])
                y == ToIndex(cursor[2])
            IN  IF IndexOK(x, y)
                THEN /\ board' = [board EXCEPT ![y][x].alive = TRUE]
                     /\ clicks' = clicks + 1
                     /\ UNCHANGED fault
                ELSE /\ fault' = "add_cells"
                     /\ UNCHANGED <<board, clicks>>
       ELSE UNCHANGED <<board, fault, clicks>>
    /\ UNCHANGED <<old_board, sim_tick, pos, gen>>

Next ==
    \/ \E space \in BOOLEAN : pause_sim(space)
    \/ render_board
    \/ \E delta \in FrameDeltas : execute_step(delta)
    \/ \E pressed \in BOOLEAN, cursor \in {<<>>} \cup Pointers :
          add_cells(pressed, cursor)

Spec == Init /\ [][Next]_vars

(* ------------------------------------------------------------------ *)
(* The step engine alone: the scheduler drives execute_step from any   *)
(* of the sparse, dense or window boards and the pointer is never      *)
(* pressed.                                                            *)
(* ------------------------------------------------------------------ *)
InitStep == Start(SparseStarts \cup DenseStarts \cup WindowStarts)

NextStep ==
    \/ \E space \in BOOLEAN : pause_sim(space)
    \/ render_board
    \/ \E delta \in FrameDeltas : execute_step(delta)

SpecStep == InitStep /\ [][NextStep]_vars

(* ------------------------------------------------------------------ *)
(* execute_step cell by cell: pos is the iteration of the loop about   *)
(* to run (0 outside the loop), old_board the snapshot it reads.       *)
(* ------------------------------------------------------------------ *)
\* lines 136-138: tick the timer, clone the board, enter the loop if due
step_begin(delta) ==
    /\ Running
    /\ gen < MaxGen
    /\ sim_tick' = TimerTick(sim_tick, delta)
    /\ old_board' = board
    /\ pos' = IF sim_tick'.just_finished THEN 1 ELSE 0
    /\ UNCHANGED <<board, fault, gen, clicks>>

\* lines 141-147: one iteration; the last one leaves the loop
step_cell ==
    /\ fault = "none"
    /\ pos \in 1 .. NumCells
    /\ IF ProbesOK(LoopOrder[pos])
       THEN /\ board' = CellUpdate(board, old_board, LoopOrder[pos])
            /\ pos' = IF pos = NumCells THEN 0 ELSE pos + 1
            /\ gen' = IF pos = NumCells THEN gen + 1 ELSE gen
            /\ UNCHANGED fault
       ELSE /\ fault' = "execute_step"
            /\ UNCHANGED <<board, pos, gen>>
    /\ UNCHANGED <<old_board, sim_tick, clicks>>

NextLoop ==
    \/ \E space \in BOOLEAN : pause_sim(space)
    \/ render_board
    \/ \E delta \in FrameDeltas : step_begin(delta)
    \/ step_cell

SpecLoop == InitStep /\ [][NextLoop]_vars

(* ------------------------------------------------------------------ *)
(* What the claims speak of.                                           *)
(* ------------------------------------------------------------------ *)
Alive(b, c) == b[c[2]][c[1]].alive

LiveCells(b) == {c \in Cells : Alive(b, c)}

\* the canonical rule: birth on 3, survival on 2 or 3, death otherwise
NextAlive(a, n) == (~a /\ n = 3) \/ (a /\ (n = 2 \/ n = 3))

Offsets == {d \in {-1, 0, 1} \X {-1, 0, 1} : d # <<0, 0>>}

\* live cells among the 8 toroidal neighbours, each offset counted once
ToroidalCount(b, c) ==
    Cardinality({d \in Offsets :
        Alive(b, <<(c[1] + d[1]) % GRID_WIDTH, (c[2] + d[2]) % GRID_HEIGHT>>)})

Interior == {c \in Cells : /\ 1 <= c[1] /\ c[1] <= GRID_WIDTH - 2
                           /\ 1 <= c[2] /\ c[2] <= GRID_HEIGHT - 2}

\* live cells among the 8 distinct cells (x+dx, y+dy) of an interior cell
PlainCount(b, c) ==
    Cardinality({d \in Offsets : Alive(b, <<c[1] + d[1], c[2] + d[2]>>)})

\* a step has just run to its end: board is the generation after old_board
Stepped == sim_tick.just_finished /\ fault = "none" /\ pos = 0

Block(ox, oy) == RectCells(ox, oy, 2, 2)
HBlinker(x, y) == {<<x - 1, y>>, <<x, y>>, <<x + 1, y>>}
VBlinker(x, y) == {<<x, y - 1>>, <<x, y>>, <<x, y + 1>>}
BlinkerCentres == (2 .. (GRID_WIDTH - 3)) \X (2 .. (GRID_HEIGHT - 3))

\* C1: for every grid and every cell, surrounding_count is the number of
\* live cells among the 8 toroidal neighbours, each counted once and each
\* axis wrapped on its own; with only (WIDTH-1, HEIGHT-1) alive the count
\* for (0, 0) is 1.
C1_ToroidalCount ==
    /\ \A c \in Cells : surrounding_count(board, c) = ToroidalCount(board, c)
    /\ (LiveCells(board) = {<<GRID_WIDTH - 1, GRID_HEIGHT - 1>>}
            => surrounding_count(board, <<0, 0>>) = 1)

\* C2: after a step that fired, every cell is alive iff it was dead with
\* surrounding_count 3, or alive with surrounding_count 2 or 3, both read
\* from the pre-step board.
C2_Rule ==
    Stepped =>
        \A c \in Cells :
            Alive(board, c)
                = NextAlive(Alive(old_board, c), surrounding_count(old_board, c))

\* a step in which a live cell survived on 3, a live cell survived on 2, a
\* dead cell was born on 3, a live cell died and a dead cell stayed dead
C2_Witness ==
    /\ Stepped
    /\ \E c \in Cells : /\ Alive(old_board, c) /\ Alive(board, c)
                         /\ surrounding_count(old_board, c) = 3
    /\ \E c \in Cells : /\ Alive(old_board, c) /\ Alive(board, c)
                         /\ surrounding_count(old_board, c) = 2
    /\ \E c \in Cells : /\ ~Alive(old_board, c) /\ Alive(board, c)
                         /\ surrounding_count(old_board, c) = 3
    /\ \E c \in Cells : Alive(old_board, c) /\ ~Alive(board, c)
    /\ \E c \in Cells : /\ ~Alive(old_board, c) /\ ~Alive(board, c)
                         /\ surrounding_count(old_board, c) = 2

\* C3: a 2x2 block at any position of the torus, edges included, with every
\* other cell dead, is left unchanged by one step.
C3_BlockStill ==
    (Stepped /\ \E ox \in Xs, oy \in Ys : LiveCells(old_board) = Block(ox, oy))
        => board = old_board

\* C4: a horizontal blinker centred at (x, y), 2 <= x <= WIDTH-3 and
\* 2 <= y <= HEIGHT-3, becomes the vertical blinker at (x, y) in one step,
\* and that one the horizontal blinker again in the next.
C4_Blinker ==
    (Stepped /\ Cardinality(LiveCells(old_board)) = 3) =>
        \A c \in BlinkerCentres :
            /\ LiveCells(old_board) = HBlinker(c[1], c[2])
                    => LiveCells(board) = VBlinker(c[1], c[2])
            /\ LiveCells(old_board) = VBlinker(c[1], c[2])
                    => LiveCells(board) = HBlinker(c[1], c[2])

\* the second step of a run has turned a vertical blinker back
C4_Witness ==
    /\ Stepped
    /\ gen = 2
    /\ \E c \in BlinkerCentres :
          /\ LiveCells(old_board) = VBlinker(c[1], c[2])
          /\ LiveCells(board) = HBlinker(c[1], c[2])

\* C5: from the all-dead grid, after add_cells has set one cell and one
\* step has run, the grid is all dead again.
C5_LoneCellDies ==
    (Stepped /\ gen = 1 /\ clicks = 1 /\ Cardinality(LiveCells(old_board)) = 1)
        => LiveCells(board) = {}

\* the order of the loop reversed
ReverseOrder == [k \in 1 .. NumCells |-> LoopOrder[NumCells + 1 - k]]

\* C6: while the loop of execute_step writes the board, old_board is not
\* modified, the value written to the visited cell is the rule's value
\* computed from old_board alone, every cell not yet visited still holds
\* its old value, and the finished board is the one the reverse visiting
\* order gives.
C6_Snapshot ==
    /\ [][pos >= 1 =>
            /\ old_board' = old_board
            /\ board' = [board EXCEPT ![LoopOrder[pos][2]][LoopOrder[pos][1]].alive =
                            NextAlive(Alive(old_board, LoopOrder[pos]),
                                      surrounding_count(old_board, LoopOrder[pos]))]
         ]_vars
    /\ [](pos >= 1 =>
            \A k \in pos .. NumCells :
                Alive(board, LoopOrder[k]) = Alive(old_board, LoopOrder[k]))
    /\ [](Stepped => board = RunLoop(old_board, old_board, ReverseOrder, NumCells))

\* mid-loop, a cell still to be visited whose value would differ if it
\* were computed from the partly written board
C6_Witness ==
    /\ pos >= 2
    /\ \E k \in pos .. NumCells :
          NextAlive(Alive(old_board, LoopOrder[k]),
                    surrounding_count(old_board, LoopOrder[k]))
            # NextAlive(Alive(board, LoopOrder[k]),
                        surrounding_count(board, LoopOrder[k]))

\* C7: pause_sim with Space pressed flips the paused flag and changes no
\* cell; while the timer is paused only add_cells changes a cell; and
\* execute_step changes cells only when the timer has just finished.
C7_Pause ==
    /\ [](Running =>
            ENABLED (pause_sim(TRUE) /\ sim_tick'.paused = ~sim_tick.paused))
    /\ [][ /\ pause_sim(TRUE) =>
                 (sim_tick'.paused = ~sim_tick.paused /\ board' = board)
           /\ (sim_tick'.paused # sim_tick.paused) => board' = board
           /\ (sim_tick.paused /\ board' # board) => clicks' = clicks + 1
           /\ (board' # board /\ clicks' = clicks) =>
                 (~sim_tick.paused /\ sim_tick'.just_finished /\ gen' = gen + 1)
         ]_vars

\* execute_step has run under a paused timer (no time has passed since the
\* last firing) on a board that a step would change
C7_Witness ==
    /\ sim_tick.paused
    /\ gen >= 1
    /\ ~sim_tick.just_finished
    /\ sim_tick.elapsed = 0
    /\ old_board = board
    /\ board # RunLoop(board, board, LoopOrder, NumCells)

\* C8: add_cells sets one in-range cell or leaves the grid unchanged, and a
\* pointer position outside the grid never indexes outside the board.
C8_PointerInBounds == fault # "add_cells"

\* every probe of every cell, in every direction, is an index of the board
ProbesInRange ==
    \A c \in Cells :
        \A i \in 1 .. Len(directions) :
            /\ 0 <= new_x(c, directions[i])
            /\ new_x(c, directions[i]) < GRID_WIDTH
            /\ 0 <= new_y(c, directions[i])
            /\ new_y(c, directions[i]) < GRID_HEIGHT

\* C9: every index pair surrounding_count computes is inside the board,
\* the count is in 0..8, and execute_step gives every cell a value without
\* indexing outside the board, after any steps and single-cell sets.
C9_Total ==
    /\ ProbesInRange
    /\ fault # "execute_step"
    /\ board \in Boards
    /\ \A c \in Cells : surrounding_count(board, c) \in 0 .. 8

\* a step has run to its end over a board with live edge cells, after a
\* cell was set through the pointer
C9_Witness ==
    /\ Stepped
    /\ clicks >= 1
    /\ \E c \in Cells \ Interior : Alive(old_board, c)

\* the 8 directions are the 8 offsets, and an interior cell probes the
\* cells (x+dx, y+dy)
InteriorProbesPlain ==
    /\ {directions[i] : i \in 1 .. Len(directions)} = Offsets
    /\ Len(directions) = Cardinality(Offsets)
    /\ \A c \in Interior :
          \A i \in 1 .. Len(directions) :
              Probe(c, directions[i])
                  = <<c[1] + directions[i][1], c[2] + directions[i][2]>>

\* C10: for an interior cell surrounding_count probes exactly the 8 cells
\* (x+dx, y+dy) and returns the number of them alive, each counted once; a
\* step gives it the value of the non-wrapping rule on its 3x3 block.
C10_Interior ==
    /\ InteriorProbesPlain
    /\ \A c \in Interior : surrounding_count(board, c) = PlainCount(board, c)
    /\ Stepped =>
          \A c \in Interior :
              Alive(board, c)
                  = NextAlive(Alive(old_board, c), PlainCount(old_board, c))

\* a step over a board where an interior cell had all 8 neighbours alive
\* and another was born from exactly 3
C10_Witness ==
    /\ Stepped
    /\ \E c \in Interior : PlainCount(old_board, c) = 8
    /\ \E c \in Interior : /\ ~Alive(old_board, c) /\ Alive(board, c)
                            /\ PlainCount(old_board, c) = 3

====
